---- MODULE Spec2Model ----
(***************************************************************************)
(* A model of src/src/main.rs: the in-memory inode table (FileSystem), its *)
(* identifier counter and its textual Journal, with one action per method. *)
(* Strings are sequences of one-character strings, byte buffers are        *)
(* sequences of integers, and Option<T> is a sequence of length 0 or 1.    *)
(***************************************************************************)
EXTENDS Integers, Sequences, FiniteSets, TLC

\* ------------------------------------------------------------------ bounds
MaxInodes == 2      \* inode creations allowed to the API driver
MaxJournal == 2     \* journal length up to which the API driver logs
MaxEntries == 2     \* directory entries up to which the API driver links
MaxDataLen == 1     \* longest byte buffer the API driver writes

NUM_DIRECT_POINTERS == 5

\* ------------------------------------------------------------------ Option
None == <<>>
Some(x) == <<x>>
IsSome(o) == Len(o) = 1
Unwrap(o) == o[1]

\* ----------------------------------------------------------------- strings
Digits == <<"0", "1", "2", "3", "4", "5", "6", "7", "8", "9">>
DigitSet == {Digits[i] : i \in 1..10}
DigitVal(c) == (CHOOSE i \in 1..10 : Digits[i] = c) - 1
Whitespace == {" ", "\t", "\n"}

\* Display of a u64 by "{}": decimal digits, no sign, no padding.
RECURSIVE ToDecimal(_)
ToDecimal(n) ==
    IF n < 10 THEN <<Digits[n + 1]>>
    ELSE ToDecimal(n \div 10) \o <<Digits[(n % 10) + 1]>>

\* mutant: the pieces are not trimmed
Trim_None(s) == s

\* str::trim: drops leading and trailing whitespace.
RECURSIVE TrimStart(_)
TrimStart(s) ==
    IF s # <<>> /\ Head(s) \in Whitespace THEN TrimStart(Tail(s)) ELSE s

RECURSIVE TrimEnd(_)
TrimEnd(s) ==
    IF s # <<>> /\ s[Len(s)] \in Whitespace
    THEN TrimEnd(SubSeq(s, 1, Len(s) - 1)) ELSE s

Trim(s) == TrimEnd(TrimStart(s))

\* str::split(':'): the pieces between colons; a string without a colon
\* (the empty string included) is one piece.
RECURSIVE SplitFrom(_, _)
SplitFrom(s, cur) ==
    IF s = <<>> THEN <<cur>>
    ELSE IF Head(s) = ":" THEN <<cur>> \o SplitFrom(Tail(s), <<>>)
    ELSE SplitFrom(Tail(s), Append(cur, Head(s)))

Split(s) == SplitFrom(s, <<>>)

\* last_operation.split(':').map(|s| s.trim()).collect()
Parts(s) == [i \in 1..Len(Split(s)) |-> Trim(Split(s)[i])]

\* str::parse::<u64>: an optional '+', then one or more decimal digits and
\* nothing else.  The value is computed for the digit strings the model can
\* produce (identifiers far below 2^31); overflow of u64 is out of reach.
RECURSIVE DigitsValue(_, _)
DigitsValue(s, acc) ==
    IF s = <<>> THEN acc
    ELSE DigitsValue(Tail(s), acc * 10 + DigitVal(Head(s)))

ParseU64(s) ==
    LET body == IF s # <<>> /\ Head(s) = "+" THEN Tail(s) ELSE s
    IN  IF body # <<>> /\ \A i \in 1..Len(body) : body[i] \in DigitSet
        THEN Some(DigitsValue(body, 0))
        ELSE None

\* ------------------------------------------------------- journal formats
STR_CREATE_DIRECTORY ==
    <<"C","R","E","A","T","E"," ","D","I","R","E","C","T","O","R","Y",":"," ">>
STR_CREATE_FILE ==
    <<"C","R","E","A","T","E"," ","F","I","L","E",":"," ">>
STR_ADD_FILE == <<"A","D","D"," ","F","I","L","E",":"," ">>
STR_TO_DIRECTORY == <<" ","T","O"," ","D","I","R","E","C","T","O","R","Y",":"," ">>
STR_WRITE_TO_FILE == <<"W","R","I","T","E"," ","T","O"," ","F","I","L","E",":"," ">>
\* the match arm of undo_last_operation
VERB_WRITE_TO_FILE == <<"W","R","I","T","E"," ","T","O"," ","F","I","L","E">>

FmtCreateDirectory(name) == STR_CREATE_DIRECTORY \o name
FmtCreateFile(name) == STR_CREATE_FILE \o name
FmtAddFile(file_id, dir_id) ==
    STR_ADD_FILE \o ToDecimal(file_id) \o STR_TO_DIRECTORY \o ToDecimal(dir_id)
FmtWriteToFile(file_id) == STR_WRITE_TO_FILE \o ToDecimal(file_id)

\* -------------------------------------------------------------- data model
RegularFile == "RegularFile"
Directory == "Directory"

VARIABLES
    next_id,    \* FileSystem.next_id
    inodes,     \* FileSystem.inodes: identifier -> Inode
    journal,    \* FileSystem.journal.entries
    last,       \* the call made last: its arguments, result and output
    driver,     \* who calls: "main" (fn main) or "api" (any caller, as the tests)
    pc,         \* position of fn main
    mainv       \* the local variables of fn main

vars == <<next_id, inodes, journal, last, driver, pc, mainv>>

\* mutant: every inode is given an entries vector
Inode_WithEntries(id, name, file_type, entries) ==
    [id |-> id, name |-> name, size |-> 0, file_type |-> file_type,
     direct_pointers |-> [i \in 1..NUM_DIRECT_POINTERS |-> None],
     entries |-> Some(<<>>), data |-> None]

\* Inode { id, name, size: 0, file_type, direct_pointers: [None; 5], entries, data: None }
Inode(id, name, file_type, entries) ==
    [id |-> id, name |-> name, size |-> 0, file_type |-> file_type,
     direct_pointers |-> [i \in 1..NUM_DIRECT_POINTERS |-> None],
     entries |-> entries, data |-> None]

\* mutant: the new inode replaces the table instead of joining it
Insert_Only(map, k, v) == [x \in {k} |-> v]

\* HashMap::insert
Insert(map, k, v) == [x \in DOMAIN map \cup {k} |-> IF x = k THEN v ELSE map[x]]

\* ----------------------------------------------------------------- Journal
Journal_new == <<>>

log(entries, operation) ==
    Append(entries, [operation |-> operation, committed |-> TRUE])

\* mutant: reads the last entry without removing it
undo_peek(entries) ==
    IF entries # <<>>
    THEN [entries |-> entries, ret |-> Some(entries[Len(entries)].operation)]
    ELSE [entries |-> entries, ret |-> None]

\* mutant: removes the oldest entry instead of the newest
undo_first(entries) ==
    IF entries # <<>>
    THEN [entries |-> Tail(entries), ret |-> Some(Head(entries).operation)]
    ELSE [entries |-> entries, ret |-> None]

\* mutant: an empty log yields an empty description instead of none
undo_default(entries) ==
    IF entries # <<>>
    THEN [entries |-> SubSeq(entries, 1, Len(entries) - 1),
          ret |-> Some(entries[Len(entries)].operation)]
    ELSE [entries |-> entries, ret |-> Some(<<>>)]

\* Vec::pop: the entries without the last one, and the last one's operation
undo(entries) ==
    IF entries # <<>>
    THEN [entries |-> SubSeq(entries, 1, Len(entries) - 1),
          ret |-> Some(entries[Len(entries)].operation)]
    ELSE [entries |-> entries, ret |-> None]

\* ------------------------------------------------------------- call record
Line(msg, args) == [msg |-> msg, args |-> args]

NoTag == [op |-> "", id |-> 0]

\* A call: its name, the arguments file_id and dir_id, what it put into the
\* table (the name of a created inode, the bytes a write stored), what it
\* returned, the lines it printed, and whether it appended to the journal.
NoCall ==
    [op |-> "new", file_id |-> 0, dir_id |-> 0, name |-> <<>>, stored |-> None,
     ret_id |-> 0, ret_bytes |-> <<>>, ret_str |-> None, out |-> <<>>,
     logged |-> FALSE, after |-> NoTag]

\* What a later call remembers of the call rec it directly follows, when rec
\* appended to the journal or popped it: its name and the inode it was about.
Tag(rec) ==
    IF rec.logged \/ rec.op \in {"undo_last_operation", "journal_undo"}
    THEN [op |-> rec.op, id |-> IF rec.ret_id # 0 THEN rec.ret_id ELSE rec.file_id]
    ELSE NoTag

Called(rec) == last' = rec
\* a write, a read and an undo also record which call they directly follow
CalledAfter(rec) == last' = [rec EXCEPT !.after = Tag(last)]

\* ------------------------------------------------------------- FileSystem
Init ==
    /\ next_id = 1
    /\ inodes = <<>>
    /\ journal = Journal_new
    /\ last = NoCall
    /\ driver \in {"api", "main"}
    /\ pc = 1
    /\ mainv = [dir1 |-> 0, dir2 |-> 0, file1 |-> 0, file2 |-> 0, file3 |-> 0,
               data |-> <<>>, undone |-> None]

\* mutant: the counter is advanced by two
NextId_Skip(id) == id + 2

\* mutant: the counter is not advanced
NextId_Stuck(id) == id

NextId(id) == id + 1

create_directory(name) ==
    LET id == next_id IN
    /\ next_id' = NextId(next_id)
    /\ inodes' = Insert(inodes, id, Inode(id, name, Directory, Some(<<>>)))
    /\ journal' = log(journal, FmtCreateDirectory(name))
    /\ Called([NoCall EXCEPT !.op = "create_directory", !.name = name,
                             !.ret_id = id, !.logged = TRUE])

create_file(name) ==
    LET id == next_id IN
    /\ next_id' = NextId(next_id)
    /\ inodes' = Insert(inodes, id, Inode(id, name, RegularFile, None))
    /\ journal' = log(journal, FmtCreateFile(name))
    /\ Called([NoCall EXCEPT !.op = "create_file", !.name = name,
                             !.ret_id = id, !.logged = TRUE])

\* mutant: the size is left as the write set it
Cleared_KeepSize(file) == [file EXCEPT !.data = None]

\* mutant: the file is left as it is
Cleared_Noop(file) == file

\* file.data = None; file.size = 0
Cleared(file) == [file EXCEPT !.data = None, !.size = 0]

\* The part of undo_last_operation after the pop: the inode table it leaves
\* and the lines it prints, for the popped description last_operation.
UndoEffect(table, last_operation) ==
    LET parts == Parts(last_operation)
        same == [inodes |-> table, out |-> <<>>]
    IN  IF Len(parts) < 2
        THEN [inodes |-> table,
              out |-> <<Line("Invalid journal entry: {}", <<last_operation>>)>>]
        ELSE IF parts[1] = VERB_WRITE_TO_FILE
        THEN LET parsed == ParseU64(parts[2]) IN
             IF IsSome(parsed)
             THEN LET file_id == Unwrap(parsed) IN
                  IF file_id \in DOMAIN table
                  THEN [inodes |-> [table EXCEPT ![file_id] = Cleared(table[file_id])],
                        out |-> <<Line("Undid write operation on file ID {}",
                                       <<ToDecimal(file_id)>>)>>]
                  ELSE same
             ELSE same
        ELSE [inodes |-> table,
              out |-> <<Line("Undo not implemented for operation: {}", <<parts[1]>>)>>]

\* mutant: an entry that cannot be split into two parts is put back
undo_last_operation_KeepInvalid ==
    LET popped == undo(journal) IN
    /\ IF IsSome(popped.ret)
       THEN LET eff == UndoEffect(inodes, Unwrap(popped.ret)) IN
            /\ journal' = IF Len(Parts(Unwrap(popped.ret))) < 2
                          THEN journal ELSE popped.entries
            /\ inodes' = eff.inodes
            /\ CalledAfter([NoCall EXCEPT !.op = "undo_last_operation",
                                          !.ret_str = popped.ret, !.out = eff.out])
       ELSE /\ journal' = popped.entries
            /\ inodes' = inodes
            /\ CalledAfter([NoCall EXCEPT !.op = "undo_last_operation",
                                          !.out = <<Line("Nothing to undo.", <<>>)>>])
    /\ UNCHANGED next_id

undo_last_operation ==
    LET popped == undo(journal) IN
    /\ journal' = popped.entries
    /\ IF IsSome(popped.ret)
       THEN LET eff == UndoEffect(inodes, Unwrap(popped.ret)) IN
            /\ inodes' = eff.inodes
            /\ CalledAfter([NoCall EXCEPT !.op = "undo_last_operation",
                                          !.ret_str = popped.ret, !.out = eff.out])
       ELSE /\ inodes' = inodes
            /\ CalledAfter([NoCall EXCEPT !.op = "undo_last_operation",
                                          !.out = <<Line("Nothing to undo.", <<>>)>>])
    /\ UNCHANGED next_id

\* mutant: an identifier already among the entries is not added again
Pushed_NoDup(dir, file_id) ==
    IF \E i \in 1..Len(Unwrap(dir.entries)) : Unwrap(dir.entries)[i] = file_id
    THEN dir
    ELSE [dir EXCEPT !.entries = Some(Append(Unwrap(dir.entries), file_id))]

\* entries.push(file_id)
Pushed(dir, file_id) ==
    [dir EXCEPT !.entries = Some(Append(Unwrap(dir.entries), file_id))]

add_file_to_directory(file_id, dir_id) ==
    LET call == [NoCall EXCEPT !.op = "add_file_to_directory",
                               !.file_id = file_id, !.dir_id = dir_id]
    IN
    /\ IF dir_id \in DOMAIN inodes /\ IsSome(inodes[dir_id].entries)
       THEN /\ inodes' = [inodes EXCEPT ![dir_id] = Pushed(inodes[dir_id], file_id)]
            /\ journal' = log(journal, FmtAddFile(file_id, dir_id))
            /\ Called([call EXCEPT !.logged = TRUE])
       ELSE /\ UNCHANGED <<inodes, journal>>
            /\ Called(call)
    /\ UNCHANGED next_id

\* mutant: the size is not set
Written_NoSize(file, data) == [file EXCEPT !.data = Some(data)]

\* mutant: the bytes are added after the content the file has
Written_Append(file, data) ==
    LET old == IF IsSome(file.data) THEN Unwrap(file.data) ELSE <<>>
    IN  [file EXCEPT !.size = Len(old) + Len(data), !.data = Some(old \o data)]

\* file.size = data.len() as u64; file.data = Some(data.to_vec())
Written(file, data) == [file EXCEPT !.size = Len(data), !.data = Some(data)]

\* mutant: the kind of the inode is not looked at
Writable_Any(file) == TRUE

\* file.file_type == FileType::RegularFile
Writable(file) == file.file_type = RegularFile

\* mutant: the journal entry is written whether or not the write happened
write_to_file_AlwaysLog(file_id, data) ==
    LET call == [NoCall EXCEPT !.op = "write_to_file", !.file_id = file_id]
    IN
    /\ journal' = log(journal, FmtWriteToFile(file_id))
    /\ IF file_id \in DOMAIN inodes
       THEN IF Writable(inodes[file_id])
            THEN /\ inodes' = [inodes EXCEPT ![file_id] = Written(inodes[file_id], data)]
                 /\ CalledAfter([call EXCEPT !.logged = TRUE, !.stored = Some(data)])
            ELSE /\ UNCHANGED inodes
                 /\ CalledAfter([call EXCEPT !.logged = TRUE, !.out =
                        <<Line("Error: Cannot write to a directory!", <<>>)>>])
       ELSE /\ UNCHANGED inodes
            /\ CalledAfter([call EXCEPT !.logged = TRUE])
    /\ UNCHANGED next_id

write_to_file(file_id, data) ==
    LET call == [NoCall EXCEPT !.op = "write_to_file", !.file_id = file_id]
    IN
    /\ IF file_id \in DOMAIN inodes
       THEN IF Writable(inodes[file_id])
            THEN /\ inodes' = [inodes EXCEPT ![file_id] = Written(inodes[file_id], data)]
                 /\ journal' = log(journal, FmtWriteToFile(file_id))
                 /\ CalledAfter([call EXCEPT !.logged = TRUE, !.stored = Some(data)])
            ELSE /\ UNCHANGED <<inodes, journal>>
                 /\ CalledAfter([call EXCEPT !.out =
                        <<Line("Error: Cannot write to a directory!", <<>>)>>])
       ELSE /\ UNCHANGED <<inodes, journal>>
            /\ CalledAfter(call)
    /\ UNCHANGED next_id

\* The value read_file returns from the table.
ReadFile(table, file_id) ==
    IF file_id \in DOMAIN table /\ IsSome(table[file_id].data)
    THEN Unwrap(table[file_id].data)
    ELSE <<>>

\* mutant: the content is moved out of the inode as it is read
read_file_Take(file_id) ==
    /\ CalledAfter([NoCall EXCEPT !.op = "read_file", !.file_id = file_id,
                                  !.ret_bytes = ReadFile(inodes, file_id)])
    /\ inodes' = IF file_id \in DOMAIN inodes
                 THEN [inodes EXCEPT ![file_id].data = None] ELSE inodes
    /\ UNCHANGED <<next_id, journal>>

read_file(file_id) ==
    /\ CalledAfter([NoCall EXCEPT !.op = "read_file", !.file_id = file_id,
                                  !.ret_bytes = ReadFile(inodes, file_id)])
    /\ UNCHANGED <<next_id, inodes, journal>>

\* mutant: the direct undo also reverses what the popped entry describes
journal_undo_Reversing ==
    LET popped == undo(journal) IN
    /\ journal' = popped.entries
    /\ inodes' = IF IsSome(popped.ret)
                 THEN UndoEffect(inodes, Unwrap(popped.ret)).inodes ELSE inodes
    /\ CalledAfter([NoCall EXCEPT !.op = "journal_undo", !.ret_str = popped.ret])
    /\ UNCHANGED next_id

\* fs.journal.undo() called on the journal alone, as fn main and
\* test_journal_logging_and_undo do.
journal_undo ==
    LET popped == undo(journal) IN
    /\ journal' = popped.entries
    /\ CalledAfter([NoCall EXCEPT !.op = "journal_undo", !.ret_str = popped.ret])
    /\ UNCHANGED <<next_id, inodes>>

\* Display of a bool by "{}"
BoolStr(b) == IF b THEN <<"t","r","u","e">> ELSE <<"f","a","l","s","e">>

print_journal ==
    /\ Called([NoCall EXCEPT !.op = "print_journal", !.out =
          <<Line("Journal Entries:", <<>>)>> \o
          [i \in 1..Len(journal) |->
              Line("{}. {} [Committed: {}]",
                   <<ToDecimal(i), journal[i].operation,
                     BoolStr(journal[i].committed)>>)]])
    /\ UNCHANGED <<next_id, inodes, journal>>

\* The lines printed for the entries es of a directory: one per entry that
\* resolves to an inode.
RECURSIVE EntryLines(_, _)
EntryLines(table, es) ==
    IF es = <<>> THEN <<>>
    ELSE (IF Head(es) \in DOMAIN table
          THEN <<Line("- File {} (ID: {}, Size: {} bytes)",
                      <<table[Head(es)].name, ToDecimal(table[Head(es)].id),
                        ToDecimal(table[Head(es)].size)>>)>>
          ELSE <<>>) \o EntryLines(table, Tail(es))

\* The lines printed when the inodes are visited in the order ks.
RECURSIVE ListLines(_, _)
ListLines(table, ks) ==
    IF ks = <<>> THEN <<>>
    ELSE LET inode == table[Head(ks)] IN
         (IF inode.file_type = Directory
          THEN <<Line("Directory {} (ID: {}):", <<inode.name, ToDecimal(inode.id)>>)>>
               \o (IF IsSome(inode.entries)
                   THEN EntryLines(table, Unwrap(inode.entries)) ELSE <<>>)
          ELSE <<>>) \o ListLines(table, Tail(ks))

\* HashMap::values visits the inodes in an order the map chooses.
Orders(S) ==
    {ks \in [1..Cardinality(S) -> S] : \A i, j \in 1..Cardinality(S) :
                                           ks[i] = ks[j] => i = j}

list_directories_and_files ==
    /\ \E ks \in Orders(DOMAIN inodes) :
          Called([NoCall EXCEPT !.op = "list_directories_and_files",
                                !.out = ListLines(inodes, ks)])
    /\ UNCHANGED <<next_id, inodes, journal>>

\* ------------------------------------------------------------------- main
println(line) ==
    /\ Called([NoCall EXCEPT !.op = "println", !.out = <<line>>])
    /\ UNCHANGED <<next_id, inodes, journal>>

\* String::from_utf8_lossy on single bytes: printable ASCII maps to its
\* character, a byte that is not ASCII to the replacement character U+FFFD
\* (the grave accent, which a TLA+ string cannot hold, is written U+0060).
AsciiTable ==
    <<" ","!","\"","#","$","%","&","'","(",")","*","+",",","-",".","/",
      "0","1","2","3","4","5","6","7","8","9",":",";","<","=",">","?",
      "@","A","B","C","D","E","F","G","H","I","J","K","L","M","N","O",
      "P","Q","R","S","T","U","V","W","X","Y","Z","[","\\","]","^","_",
      "U+0060","a","b","c","d","e","f","g","h","i","j","k","l","m","n","o",
      "p","q","r","s","t","u","v","w","x","y","z","{","|","}","~">>

Utf8Lossy(bytes) ==
    [i \in 1..Len(bytes) |->
        IF bytes[i] \in 32..126 THEN AsciiTable[bytes[i] - 31] ELSE "U+FFFD"]

STR_Documents == <<"D","o","c","u","m","e","n","t","s">>
STR_Pictures == <<"P","i","c","t","u","r","e","s">>
STR_doc1 == <<"d","o","c","1",".","t","x","t">>
STR_doc2 == <<"d","o","c","2",".","t","x","t">>
STR_pic1 == <<"p","i","c","1",".","j","p","g">>
\* b"Hello, world!"
BYTES_Hello == <<72,101,108,108,111,44,32,119,111,114,108,100,33>>

Goto(k) == pc' = k /\ UNCHANGED driver
Keep == mainv' = mainv

main ==
    \/ pc = 1 /\ create_directory(STR_Documents) /\ Goto(2)
              /\ mainv' = [mainv EXCEPT !.dir1 = last'.ret_id]
    \/ pc = 2 /\ create_directory(STR_Pictures) /\ Goto(3)
              /\ mainv' = [mainv EXCEPT !.dir2 = last'.ret_id]
    \/ pc = 3 /\ create_file(STR_doc1) /\ Goto(4)
              /\ mainv' = [mainv EXCEPT !.file1 = last'.ret_id]
    \/ pc = 4 /\ create_file(STR_doc2) /\ Goto(5)
              /\ mainv' = [mainv EXCEPT !.file2 = last'.ret_id]
    \/ pc = 5 /\ create_file(STR_pic1) /\ Goto(6)
              /\ mainv' = [mainv EXCEPT !.file3 = last'.ret_id]
    \/ pc = 6 /\ add_file_to_directory(mainv.file1, mainv.dir1) /\ Goto(7) /\ Keep
    \/ pc = 7 /\ add_file_to_directory(mainv.file2, mainv.dir1) /\ Goto(8) /\ Keep
    \/ pc = 8 /\ add_file_to_directory(mainv.file3, mainv.dir2) /\ Goto(9) /\ Keep
    \/ pc = 9 /\ write_to_file(mainv.file1, BYTES_Hello) /\ Goto(10) /\ Keep
    \/ pc = 10 /\ println(Line("\n=== Directory Listing ===", <<>>)) /\ Goto(11) /\ Keep
    \/ pc = 11 /\ list_directories_and_files /\ Goto(12) /\ Keep
    \/ pc = 12 /\ read_file(mainv.file1) /\ Goto(13)
               /\ mainv' = [mainv EXCEPT !.data = last'.ret_bytes]
    \/ pc = 13 /\ println(Line("\n=== Read File ===", <<>>)) /\ Goto(14) /\ Keep
    \/ pc = 14 /\ println(Line("File Data: {}", <<Utf8Lossy(mainv.data)>>))
               /\ Goto(15) /\ Keep
    \/ pc = 15 /\ println(Line("\n=== Journal ===", <<>>)) /\ Goto(16) /\ Keep
    \/ pc = 16 /\ print_journal /\ Goto(17) /\ Keep
    \/ pc = 17 /\ println(Line("\n=== Undo Operation ===", <<>>)) /\ Goto(18) /\ Keep
    \/ pc = 18 /\ journal_undo /\ Goto(19)
               /\ mainv' = [mainv EXCEPT !.undone = last'.ret_str]
    \/ pc = 19 /\ println(IF IsSome(mainv.undone)
                          THEN Line("Undid operation: {}", <<Unwrap(mainv.undone)>>)
                          ELSE Line("Nothing to undo.", <<>>))
               /\ Goto(20) /\ Keep
    \/ pc = 20 /\ println(Line("\n=== Final Journal ===", <<>>)) /\ Goto(21) /\ Keep
    \/ pc = 21 /\ print_journal /\ Goto(22) /\ Keep

MainDone == driver = "main" /\ pc = 22

\* ------------------------------------------------------------ API driver
Names == {<<"a">>, <<"b", ":", "1">>}
ByteVals == {0, 255}
Data == UNION {[1..n -> ByteVals] : n \in 0..MaxDataLen}
Ids == 1..(MaxInodes + 1)

\* a call made by the API driver: fn main's variables stay as they are
Api(call) == driver = "api" /\ call /\ UNCHANGED <<driver, pc, mainv>>

CanCreate == next_id <= MaxInodes /\ Len(journal) < MaxJournal
CanLink(dir_id) ==
    /\ Len(journal) < MaxJournal
    /\ dir_id \in DOMAIN inodes /\ IsSome(inodes[dir_id].entries)
          => Len(Unwrap(inodes[dir_id].entries)) < MaxEntries
CanWrite == Len(journal) < MaxJournal

Next ==
    \/ \E name \in Names : Api(CanCreate /\ create_directory(name))
    \/ \E name \in Names : Api(CanCreate /\ create_file(name))
    \/ \E f \in Ids, d \in Ids : Api(CanLink(d) /\ add_file_to_directory(f, d))
    \/ \E f \in Ids, data \in Data : Api(CanWrite /\ write_to_file(f, data))
    \/ \E f \in Ids : Api(read_file(f))
    \/ Api(undo_last_operation)
    \/ Api(journal_undo)
    \/ Api(print_journal)
    \/ Api(list_directories_and_files)
    \/ driver = "main" /\ main

Spec == Init /\ [][Next]_vars

TypeOK ==
    /\ next_id \in Nat \ {0}
    /\ DOMAIN inodes \subseteq 1..(next_id - 1)
    /\ \A k \in DOMAIN inodes : inodes[k].file_type \in {RegularFile, Directory}

\* ------------------------------------- FileSystem methods only (no main)
\* The example of the specification, section 8: a caller that creates
\* "Documents" and "doc.txt", links, writes "Hello", reads, undoes and reads.
STR_doc_txt == <<"d","o","c",".","t","x","t">>
\* "Hello"
BYTES_Hello5 == <<72,101,108,108,111>>

example ==
    \/ pc = 1 /\ create_directory(STR_Documents) /\ Goto(2) /\ Keep
    \/ pc = 2 /\ create_file(STR_doc_txt) /\ Goto(3) /\ Keep
    \/ pc = 3 /\ add_file_to_directory(2, 1) /\ Goto(4) /\ Keep
    \/ pc = 4 /\ write_to_file(2, BYTES_Hello5) /\ Goto(5) /\ Keep
    \/ pc = 5 /\ read_file(2) /\ Goto(6) /\ Keep
    \/ pc = 6 /\ undo_last_operation /\ Goto(7) /\ Keep
    \/ pc = 7 /\ read_file(2) /\ Goto(8) /\ Keep

InitFS ==
    /\ next_id = 1
    /\ inodes = <<>>
    /\ journal = Journal_new
    /\ last = NoCall
    /\ driver \in {"api", "example"}
    /\ pc = 1
    /\ mainv = [dir1 |-> 0, dir2 |-> 0, file1 |-> 0, file2 |-> 0, file3 |-> 0,
               data |-> <<>>, undone |-> None]

NextFS ==
    \/ \E name \in Names : Api(CanCreate /\ create_directory(name))
    \/ \E name \in Names : Api(CanCreate /\ create_file(name))
    \/ \E f \in Ids, d \in Ids : Api(CanLink(d) /\ add_file_to_directory(f, d))
    \/ \E f \in Ids, data \in Data : Api(CanWrite /\ write_to_file(f, data))
    \/ \E f \in Ids : Api(read_file(f))
    \/ Api(undo_last_operation)
    \/ driver = "example" /\ example

SpecFS == InitFS /\ [][NextFS]_vars

\* ------------------------------------------ with direct calls of Journal::log
\* fs.journal.log(text) called on the journal alone
journal_log(text) ==
    /\ journal' = log(journal, text)
    /\ Called([NoCall EXCEPT !.op = "journal_log", !.logged = TRUE])
    /\ UNCHANGED <<next_id, inodes>>

TEXT_Empty == <<>>
TEXT_NoColon == <<"x">>
TEXT_OtherVerb == <<"D","E","L","E","T","E",":"," ","1">>
TEXT_WriteBadId == STR_WRITE_TO_FILE \o <<"x">>
TEXT_WriteUnresolved == STR_WRITE_TO_FILE \o <<"9">>
TEXT_WritePlus1 == <<" ">> \o VERB_WRITE_TO_FILE \o <<" ",":","+","1"," ">>
Texts == {TEXT_Empty, TEXT_NoColon, TEXT_OtherVerb, TEXT_WriteBadId,
          TEXT_WriteUnresolved, TEXT_WritePlus1}

InitLog ==
    /\ next_id = 1
    /\ inodes = <<>>
    /\ journal = Journal_new
    /\ last = NoCall
    /\ driver = "api"
    /\ pc = 1
    /\ mainv = [dir1 |-> 0, dir2 |-> 0, file1 |-> 0, file2 |-> 0, file3 |-> 0,
               data |-> <<>>, undone |-> None]

NextLog ==
    \/ \E name \in Names : Api(CanCreate /\ create_directory(name))
    \/ \E name \in Names : Api(CanCreate /\ create_file(name))
    \/ \E f \in Ids, data \in Data : Api(CanWrite /\ write_to_file(f, data))
    \/ \E text \in Texts : Api(Len(journal) < MaxJournal /\ journal_log(text))
    \/ Api(undo_last_operation)

SpecLog == InitLog /\ [][NextLog]_vars

\* ------------------------------------------------------------ properties
AllData == Data \cup {BYTES_Hello}
Entry(operation) == [operation |-> operation, committed |-> TRUE]
Front(s) == SubSeq(s, 1, Len(s) - 1)
IsFile(table, id) == id \in DOMAIN table /\ table[id].file_type = RegularFile
IsDir(table, id) == id \in DOMAIN table /\ table[id].file_type = Directory
Creates == {"create_directory", "create_file"}

\* C1: after write_to_file(id, B) on an existing RegularFile the inode's size
\* is length(B) and its content is B, whatever the file held before, and a
\* read_file(id) made directly after the write returns exactly B.
C1_AfterWrite ==
    (last.op = "write_to_file" /\ IsFile(inodes, last.file_id)) =>
        /\ IsSome(last.stored)
        /\ inodes[last.file_id].size = Len(Unwrap(last.stored))
        /\ ReadFile(inodes, last.file_id) = Unwrap(last.stored)
C1_ReadStep ==
    (/\ last.op = "write_to_file" /\ IsFile(inodes, last.file_id)
     /\ last'.op = "read_file" /\ last'.file_id = last.file_id) =>
        /\ last'.ret_bytes = Unwrap(last.stored)
        /\ inodes'[last.file_id].size = Len(Unwrap(last.stored))
C1_WriteThenRead == [] C1_AfterWrite /\ [][C1_ReadStep]_vars

\* a read directly after the second of two writes to the same file
C1_Witness ==
    /\ last.op = "read_file" /\ last.after = [op |-> "write_to_file", id |-> last.file_id]
    /\ Len(journal) = 2
    /\ journal[1] = Entry(FmtWriteToFile(last.file_id))
    /\ journal[2] = Entry(FmtWriteToFile(last.file_id))
    /\ last.ret_bytes = <<255>>

\* C2: next_id starts at 1 and no step decrements it; a create call returns
\* the value of next_id, which is the key of no inode, adds exactly 1 to
\* next_id and inserts an inode with that identifier, the name given and the
\* requested kind.
C2_CreateStep ==
    /\ next_id' >= next_id
    /\ last'.op \in Creates =>
          /\ last'.ret_id = next_id
          /\ next_id' = next_id + 1
          /\ last'.ret_id \notin DOMAIN inodes
          /\ DOMAIN inodes' = DOMAIN inodes \cup {last'.ret_id}
          /\ inodes'[last'.ret_id].id = last'.ret_id
          /\ inodes'[last'.ret_id].name = last'.name
          /\ inodes'[last'.ret_id].file_type =
                (IF last'.op = "create_file" THEN RegularFile ELSE Directory)
    /\ last'.op \notin Creates => next_id' = next_id
C2_FreshIds == next_id = 1 /\ [][C2_CreateStep]_vars

\* a second creation made after the first one's journal entry was popped
C2_Witness ==
    /\ last.op = "create_file" /\ last.ret_id = 2 /\ next_id = 3
    /\ Len(journal) = 1
    /\ inodes[2].name = <<"b", ":", "1">>

\* C3: undo_last_operation directly after a write_to_file(id, B) on a
\* RegularFile leaves the inode in the table with no content and size 0 and
\* the journal one entry shorter.
C3_UndoStep ==
    (/\ last.op = "write_to_file" /\ IsFile(inodes, last.file_id)
     /\ last'.op = "undo_last_operation") =>
        /\ last.file_id \in DOMAIN inodes'
        /\ inodes'[last.file_id].data = None
        /\ inodes'[last.file_id].size = 0
        /\ journal' = Front(journal)
        /\ Len(journal') = Len(journal) - 1
C3_UndoAfterWrite == [][C3_UndoStep]_vars

\* the undo of the second of two writes: the first write's entry remains
C3_Witness ==
    /\ last.op = "undo_last_operation" /\ last.after.op = "write_to_file"
    /\ IsFile(inodes, last.after.id)
    /\ inodes[last.after.id].data = None
    /\ journal = <<Entry(FmtWriteToFile(last.after.id))>>

\* the description a call that appended to the journal is logged under
LoggedText(call) ==
    CASE call.op = "create_directory" -> FmtCreateDirectory(call.name)
      [] call.op = "create_file" -> FmtCreateFile(call.name)
      [] call.op = "add_file_to_directory" -> FmtAddFile(call.file_id, call.dir_id)
      [] call.op = "write_to_file" -> FmtWriteToFile(call.file_id)

NotImplemented(out) ==
    Len(out) = 1 /\ out[1].msg = "Undo not implemented for operation: {}"

\* C4: undo_last_operation directly after a successful create_directory,
\* create_file or add_file_to_directory pops that call's journal entry and
\* reports "not implemented"; the inode table and next_id stay as they were,
\* so the created inode is still there and the linked identifier is still the
\* last of the directory's entries.
C4_UndoStep ==
    (/\ last.op \in Creates \cup {"add_file_to_directory"} /\ last.logged
     /\ last'.op = "undo_last_operation") =>
        /\ journal' = Front(journal)
        /\ Len(journal') = Len(journal) - 1
        /\ last'.ret_str = Some(LoggedText(last))
        /\ NotImplemented(last'.out)
        /\ inodes' = inodes
        /\ next_id' = next_id
        /\ last.op \in Creates => last.ret_id \in DOMAIN inodes'
        /\ last.op = "add_file_to_directory" =>
              LET es == Unwrap(inodes'[last.dir_id].entries)
              IN  es # <<>> /\ es[Len(es)] = last.file_id
C4_UndoNotImplemented == [][C4_UndoStep]_vars

\* the undo of a link: the directory keeps the linked identifier
C4_Witness ==
    /\ last.op = "undo_last_operation"
    /\ last.after.op = "add_file_to_directory"
    /\ NotImplemented(last.out)
    /\ \E d \in DOMAIN inodes :
          /\ IsSome(inodes[d].entries)
          /\ Unwrap(inodes[d].entries) = <<last.after.id>>
          /\ last.ret_str = Some(FmtAddFile(last.after.id, d))

\* C5: a create call, an add_file_to_directory whose dir_id is a Directory
\* and a write_to_file whose file_id is a RegularFile append their own record
\* to the journal and nothing else; an add_file_to_directory or write_to_file
\* on any other identifier leaves the journal and the inode table unchanged.
C5_LogStep ==
    /\ last'.op \in Creates =>
          journal' = Append(journal, Entry(LoggedText(last')))
    /\ last'.op = "add_file_to_directory" =>
          IF IsDir(inodes, last'.dir_id)
          THEN journal' = Append(journal, Entry(LoggedText(last')))
          ELSE journal' = journal /\ inodes' = inodes
    /\ last'.op = "write_to_file" =>
          IF IsFile(inodes, last'.file_id)
          THEN journal' = Append(journal, Entry(LoggedText(last')))
          ELSE journal' = journal /\ inodes' = inodes
C5_JournalGrowth == [][C5_LogStep]_vars

\* a link into a regular file: nothing is logged
C5_Witness ==
    /\ last.op = "add_file_to_directory" /\ ~last.logged
    /\ IsFile(inodes, last.dir_id)
    /\ Len(journal) = 1

\* C6: write_to_file on a Directory changes no inode and not the journal and
\* prints the error line.
C6_WriteStep ==
    (last'.op = "write_to_file" /\ IsDir(inodes, last'.file_id)) =>
        /\ inodes' = inodes
        /\ journal' = journal
        /\ last'.out = <<Line("Error: Cannot write to a directory!", <<>>)>>
C6_WriteToDirectory == [][C6_WriteStep]_vars

\* a rejected write to a directory that has entries
C6_Witness ==
    /\ last.op = "write_to_file" /\ IsDir(inodes, last.file_id)
    /\ last.out # <<>>
    /\ Unwrap(inodes[last.file_id].entries) # <<>>
    /\ inodes[last.file_id].data = None

\* C7: add_file_to_directory(f, d) with d a Directory makes d's entries the
\* old sequence with f appended, whatever f is; with any other d the entries
\* of every inode stay as they were.
C7_AddStep ==
    last'.op = "add_file_to_directory" =>
        LET f == last'.file_id
            d == last'.dir_id
        IN  IF IsDir(inodes, d)
            THEN /\ inodes'[d].entries = Some(Append(Unwrap(inodes[d].entries), f))
                 /\ Len(Unwrap(inodes'[d].entries)) = Len(Unwrap(inodes[d].entries)) + 1
                 /\ \A k \in DOMAIN inodes \ {d} : inodes'[k] = inodes[k]
            ELSE /\ DOMAIN inodes' = DOMAIN inodes
                 /\ \A k \in DOMAIN inodes : inodes'[k].entries = inodes[k].entries
C7_AppendEntry == [][C7_AddStep]_vars

\* a directory linked into itself twice
C7_Witness ==
    /\ last.op = "add_file_to_directory" /\ last.logged
    /\ last.file_id = last.dir_id
    /\ inodes[last.dir_id].entries = Some(<<last.dir_id, last.dir_id>>)

\* C8: Journal.undo on a non-empty log returns the last entry's description
\* and leaves the entries before it; on an empty log it returns none and the
\* log stays empty.
C8_PopStep ==
    last'.op = "journal_undo" =>
        IF Len(journal) >= 1
        THEN /\ last'.ret_str = Some(journal[Len(journal)].operation)
             /\ Len(journal') = Len(journal) - 1
             /\ \A i \in 1..Len(journal') : journal'[i] = journal[i]
        ELSE last'.ret_str = None /\ journal' = <<>>
C8_JournalUndoLifo == [][C8_PopStep]_vars

\* the second of two consecutive pops, which empties a log of two entries
C8_Witness ==
    /\ last.op = "journal_undo" /\ last.after.op = "journal_undo"
    /\ IsSome(last.ret_str) /\ journal = <<>>
    /\ Unwrap(last.ret_str) = FmtCreateFile(<<"a">>)
    /\ next_id = 3

\* C9: a direct Journal.undo leaves the inode table and next_id as they
\* were; fn main ends with 8 journal entries and its written file still
\* reading back the 13 bytes.
C9_Step ==
    /\ last'.op = "journal_undo" => inodes' = inodes /\ next_id' = next_id
    /\ MainDone' =>
          /\ Len(journal') = 8
          /\ ReadFile(inodes', mainv'.file1) = BYTES_Hello
          /\ Len(ReadFile(inodes', mainv'.file1)) = 13
C9_JournalUndoFrame == [][C9_Step]_vars

\* fn main after its log-only undo popped the write's entry
C9_Witness ==
    /\ driver = "main" /\ pc = 19
    /\ last.op = "journal_undo"
    /\ last.ret_str = Some(FmtWriteToFile(mainv.file1))
    /\ inodes[mainv.file1].data = Some(BYTES_Hello)

\* C10: an inode has entries exactly if it is a Directory, has content only
\* if it is a RegularFile, and keeps its kind.
C10_Shape ==
    \A k \in DOMAIN inodes :
        /\ IsSome(inodes[k].entries) <=> inodes[k].file_type = Directory
        /\ IsSome(inodes[k].data) => inodes[k].file_type = RegularFile
C10_KindStep ==
    \A k \in DOMAIN inodes \cap DOMAIN inodes' :
        inodes'[k].file_type = inodes[k].file_type
C10_KindInvariant == [] C10_Shape /\ [][C10_KindStep]_vars

\* a written file beside a directory with entries that a write was refused on
C10_Witness ==
    /\ last.op = "write_to_file" /\ IsDir(inodes, last.file_id)
    /\ Unwrap(inodes[last.file_id].entries) # <<>>
    /\ \E k \in DOMAIN inodes : inodes[k].data = Some(<<255>>)

\* C11: the size of an inode is the length of its content when it has
\* content and 0 when it has none; a Directory has size 0.
C11_SizeIsLength ==
    \A k \in DOMAIN inodes :
        /\ IsSome(inodes[k].data) => inodes[k].size = Len(Unwrap(inodes[k].data))
        /\ inodes[k].data = None => inodes[k].size = 0
        /\ inodes[k].file_type = Directory => inodes[k].size = 0

\* a file cleared by undo_last_operation beside a file that holds a byte
C11_Witness ==
    /\ last.op = "undo_last_operation" /\ last.after.op = "write_to_file"
    /\ \E f, g \in DOMAIN inodes :
          /\ IsFile(inodes, f) /\ inodes[f].data = None
          /\ last.after.id = f
          /\ inodes[g].data = Some(<<0>>) /\ inodes[g].size = 1

UndidWrite(out, file_id) ==
    out = <<Line("Undid write operation on file ID {}", <<ToDecimal(file_id)>>)>>

\* C12 as stated: a write that had another operation logged after it is not
\* undone by later undo_last_operation calls, so an undo_last_operation that
\* follows one which popped a later entry changes no inode.
C12_Step_AsStated ==
    (/\ last.op = "undo_last_operation" /\ IsSome(last.ret_str)
     /\ last'.op = "undo_last_operation") =>
        inodes' = inodes
C12_OlderWriteNeverUndone == [][C12_Step_AsStated]_vars

\* C12 as amended: undo_last_operation acts on the journal's last entry and
\* on nothing else.  An inode changes only if that entry is the write to it,
\* and then only its content and size are cleared; it is cleared whenever
\* its write entry is the last one, also when entries logged after the write
\* were popped by earlier undo calls.  No inode is removed and no entries
\* sequence changes, so creations and links are never reversed.
C12_Step ==
    last'.op = "undo_last_operation" =>
        /\ DOMAIN inodes' = DOMAIN inodes
        /\ \A k \in DOMAIN inodes :
              /\ inodes'[k] # inodes[k] =>
                    /\ journal # <<>>
                    /\ journal[Len(journal)].operation = FmtWriteToFile(k)
                    /\ inodes'[k] = [inodes[k] EXCEPT !.data = None, !.size = 0]
              /\ (journal # <<>> /\ journal[Len(journal)].operation = FmtWriteToFile(k)) =>
                    /\ inodes'[k].data = None
                    /\ inodes'[k].size = 0
                    /\ UndidWrite(last'.out, k)
C12_UndoActsOnLastEntry == [][C12_Step]_vars

\* an undo that reverses a write directly after an undo of a later entry
C12_Witness ==
    /\ last.op = "undo_last_operation" /\ last.after.op = "undo_last_operation"
    /\ IsSome(last.ret_str)
    /\ \E k \in DOMAIN inodes :
          /\ UndidWrite(last.out, k)
          /\ last.ret_str = Some(FmtWriteToFile(k))
          /\ inodes[k].data = None
    /\ journal = <<>>

IsPrefix(s, t) == Len(s) <= Len(t) /\ SubSeq(t, 1, Len(s)) = s

\* C13: no step removes an inode, and a Directory's entries after a step
\* start with its entries before the step.
C13_Step ==
    /\ DOMAIN inodes \subseteq DOMAIN inodes'
    /\ \A k \in DOMAIN inodes :
          inodes[k].file_type = Directory =>
              /\ IsSome(inodes'[k].entries)
              /\ IsPrefix(Unwrap(inodes[k].entries), Unwrap(inodes'[k].entries))
C13_OnlyGrows == [][C13_Step]_vars

\* two inodes and a directory with two entries after every journal entry
\* was popped by Journal.undo
C13_Witness ==
    /\ last.op = "journal_undo" /\ journal = <<>>
    /\ Cardinality(DOMAIN inodes) = 2
    /\ \E d \in DOMAIN inodes :
          IsSome(inodes[d].entries) /\ Len(Unwrap(inodes[d].entries)) = 2

\* C15: read_file changes neither the inode table nor next_id nor the
\* journal; it returns the content of an inode that has content and the
\* empty sequence for an identifier that does not resolve, for a Directory
\* and for a file without content.
C15_Step ==
    last'.op = "read_file" =>
        LET f == last'.file_id IN
        /\ inodes' = inodes /\ next_id' = next_id /\ journal' = journal
        /\ f \notin DOMAIN inodes => last'.ret_bytes = <<>>
        /\ IsDir(inodes, f) => last'.ret_bytes = <<>>
        /\ (IsFile(inodes, f) /\ inodes[f].data = None) => last'.ret_bytes = <<>>
        /\ (f \in DOMAIN inodes /\ IsSome(inodes[f].data)) =>
              last'.ret_bytes = Unwrap(inodes[f].data)
C15_ReadIsPure == [][C15_Step]_vars

\* a read of a file that was written with the empty buffer
C15_Witness ==
    /\ last.op = "read_file" /\ last.after = [op |-> "write_to_file", id |-> last.file_id]
    /\ IsFile(inodes, last.file_id)
    /\ inodes[last.file_id].data = Some(<<>>)
    /\ last.ret_bytes = <<>>

NothingToUndo(out) == out = <<Line("Nothing to undo.", <<>>)>>

\* C16: undo_last_operation on an empty journal prints "Nothing to undo."
\* and leaves the journal empty and the inode table and next_id unchanged.
C16_Step ==
    (last'.op = "undo_last_operation" /\ journal = <<>>) =>
        /\ NothingToUndo(last'.out)
        /\ journal' = <<>>
        /\ inodes' = inodes
        /\ next_id' = next_id
C16_EmptyJournalUndo == [][C16_Step]_vars

\* the journal was emptied by an undo while a file still holds content
C16_Witness ==
    /\ last.op = "undo_last_operation" /\ NothingToUndo(last.out)
    /\ last.after.op = "journal_undo"
    /\ journal = <<>>
    /\ \E k \in DOMAIN inodes : inodes[k].data = Some(<<0>>)

\* C19: the keys of the inode table are exactly 1 .. next_id - 1 and the
\* inode under key k has id k.
C19_KeysAreIds ==
    /\ DOMAIN inodes = 1..(next_id - 1)
    /\ \A k \in DOMAIN inodes : inodes[k].id = k
    /\ Cardinality(DOMAIN inodes) = next_id - 1

\* two inodes are still there after undo_last_operation emptied the journal
C19_Witness ==
    /\ last.op = "undo_last_operation" /\ NotImplemented(last.out)
    /\ journal = <<>>
    /\ next_id = 3
    /\ DOMAIN inodes = {1, 2}

\* C14: in the example, the creations return 1 and 2; after the link and the
\* write the journal has 4 entries and read_file(2) returns "Hello"; after
\* undo_last_operation read_file(2) returns nothing, inode 2 has size 0, the
\* journal has 3 entries and the entries of inode 1 are [2].
C14_Example ==
    driver = "example" =>
        /\ pc = 2 => last.ret_id = 1
        /\ pc = 3 => last.ret_id = 2
        /\ pc \in {5, 6} => Len(journal) = 4 /\ ReadFile(inodes, 2) = BYTES_Hello5
        /\ pc = 6 => last.op = "read_file" /\ last.ret_bytes = BYTES_Hello5
        /\ pc \in {7, 8} =>
              /\ ReadFile(inodes, 2) = <<>>
              /\ inodes[2].size = 0
              /\ Len(journal) = 3
              /\ inodes[1].entries = Some(<<2>>)
        /\ pc = 8 => last.op = "read_file" /\ last.ret_bytes = <<>>

\* the example after its last read
C14_Witness ==
    /\ driver = "example" /\ pc = 8
    /\ last.op = "read_file" /\ last.after.op = "undo_last_operation"
    /\ inodes[2].data = None
    /\ inodes[1].name = STR_Documents /\ inodes[2].name = STR_doc_txt

InvalidEntry(out, text) == out = <<Line("Invalid journal entry: {}", <<text>>)>>

\* the inode a description is a write record of, if it is one: its first
\* part is the verb, its second part parses as an identifier
WriteTarget(text) ==
    LET parts == Parts(text) IN
    IF Len(parts) >= 2 /\ parts[1] = VERB_WRITE_TO_FILE
    THEN ParseU64(parts[2]) ELSE None

\* C17: undo_last_operation on a non-empty journal removes the last entry
\* whatever its text.  The inode table changes only if the entry's first part
\* is WRITE TO FILE and its second part parses as an identifier that
\* resolves; an entry of fewer than two parts, of another verb, or a write
\* entry whose identifier does not parse or resolve changes no inode, and the
\* entry is not put back.
C17_Step ==
    (last'.op = "undo_last_operation" /\ journal # <<>>) =>
        LET text == journal[Len(journal)].operation
            target == WriteTarget(text)
        IN  /\ journal' = Front(journal)
            /\ last'.ret_str = Some(text)
            /\ inodes' # inodes =>
                  IsSome(target) /\ Unwrap(target) \in DOMAIN inodes
            /\ text \in {TEXT_Empty, TEXT_NoColon} =>
                  inodes' = inodes /\ InvalidEntry(last'.out, text)
            /\ text = TEXT_OtherVerb =>
                  inodes' = inodes /\ NotImplemented(last'.out)
            /\ text \in {TEXT_WriteBadId, TEXT_WriteUnresolved} =>
                  inodes' = inodes /\ last'.out = <<>>
            /\ (text = TEXT_WritePlus1 /\ 1 \in DOMAIN inodes) =>
                  inodes'[1].data = None /\ inodes'[1].size = 0
C17_UndoPopsAnyEntry == [][C17_Step]_vars

\* the undo of an empty description while a file holds content
C17_Witness ==
    /\ last.op = "undo_last_operation"
    /\ last.ret_str = Some(TEXT_Empty)
    /\ InvalidEntry(last.out, TEXT_Empty)
    /\ \E k \in DOMAIN inodes :
          /\ inodes[k].data = Some(<<255>>)
          /\ journal = <<Entry(FmtWriteToFile(k))>>

\* C18: without direct calls of Journal::log, every journal entry has at
\* least two parts and every write entry names an existing RegularFile; so
\* undo_last_operation of a write entry finds its target, never prints
\* "Invalid journal entry", and leaves every Directory as it is.
C18_Entries ==
    \A i \in 1..Len(journal) :
        LET parts == Parts(journal[i].operation) IN
        /\ Len(parts) >= 2
        /\ parts[1] = VERB_WRITE_TO_FILE =>
              /\ IsSome(ParseU64(parts[2]))
              /\ IsFile(inodes, Unwrap(ParseU64(parts[2])))
C18_Step ==
    (last'.op = "undo_last_operation" /\ journal # <<>>) =>
        LET target == WriteTarget(journal[Len(journal)].operation) IN
        /\ \A k \in DOMAIN inodes : IsDir(inodes, k) => inodes'[k] = inodes[k]
        /\ \A ln \in 1..Len(last'.out) :
              last'.out[ln].msg # "Invalid journal entry: {}"
        /\ IsSome(target) => UndidWrite(last'.out, Unwrap(target))
C18_WriteEntriesResolve == [] C18_Entries /\ [][C18_Step]_vars

\* a write to file 2 undone while the entry of a directory whose name holds
\* a colon stays in the journal
C18_Witness ==
    /\ last.op = "undo_last_operation" /\ UndidWrite(last.out, 2)
    /\ IsDir(inodes, 1)
    /\ journal = <<Entry(FmtCreateDirectory(<<"b", ":", "1">>))>>

\* C20: with FileSystem methods only, a file that has content has a write
\* entry of its own in the journal.
C20_ContentHasEntry ==
    \A k \in DOMAIN inodes :
        IsSome(inodes[k].data) =>
            \E i \in 1..Len(journal) : journal[i].operation = FmtWriteToFile(k)

\* a file keeps its content and its write entry when the entry logged after
\* the write is undone
C20_Witness ==
    /\ last.op = "undo_last_operation" /\ NotImplemented(last.out)
    /\ \E k \in DOMAIN inodes :
          /\ inodes[k].data = Some(<<0>>)
          /\ journal = <<Entry(FmtWriteToFile(k))>>

====
